---- MODULE Spec2Model ----
(***************************************************************************)
(* destined: Future-wrapped fs operations (src/fs.js).                     *)
(*                                                                         *)
(* A path is a JavaScript string, modelled as a sequence of one-character  *)
(* strings.  The file system, the glob matcher, ramda and fluture are the  *)
(* library's collaborators; they are modelled by what they do to the       *)
(* values the code of src/fs.js hands them.                                *)
(***************************************************************************)
EXTENDS Integers, Sequences, FiniteSets, TLC

(***************************************************************************)
(* Bounds of the model.                                                    *)
(***************************************************************************)
MaxRuns == 2
MaxList == 3
MaxExtra == 1
MaxMissing == 1
MaxPathLen == 5

(***************************************************************************)
(* Values that travel through handlers.  Every value is a tagged record,   *)
(* so that values of different JavaScript types compare unequal.           *)
(***************************************************************************)
Null == [tag |-> "null"]
Undefined == [tag |-> "undefined"]
Bool(b) == [tag |-> "boolean", b |-> b]
Num(n) == [tag |-> "number", n |-> n]
Str(s) == [tag |-> "string", s |-> s]
PathVal(p) == [tag |-> "path", p |-> p]
ListVal(l) == [tag |-> "list", l |-> l]
Obj(m) == [tag |-> "object", m |-> m]
\* The error object an underlying call hands to its callback: one object per
\* call, identified by the call that produced it.
Err(code, id) == [tag |-> "error", code |-> code, call |-> id]
\* An exception object that is thrown, not handed to a callback.
Exception(name) == [tag |-> "exception", name |-> name]

(***************************************************************************)
(* Strings.                                                                *)
(***************************************************************************)
Max(a, b) == IF a > b THEN a ELSE b
Min(a, b) == IF a < b THEN a ELSE b

\* String.prototype.lastIndexOf: the 0-based index of the last occurrence,
\* -1 when there is none.
lastIndexOf(s, ch) ==
  LET hits == {i \in 1..Len(s) : s[i] = ch}
  IN IF hits = {} THEN -1 ELSE (CHOOSE i \in hits : \A j \in hits : j <= i) - 1

\* String.prototype.slice(start, end): a negative index counts from the end.
slice(s, start, end) ==
  LET from == IF start < 0 THEN Max(Len(s) + start, 0) ELSE Min(start, Len(s))
      to == IF end < 0 THEN Max(Len(s) + end, 0) ELSE Min(end, Len(s))
  IN IF to <= from THEN <<>> ELSE SubSeq(s, from + 1, to)

directoryOnly(filePath) == slice(filePath, 0, lastIndexOf(filePath, "/"))

(***************************************************************************)
(* The file system behind node:fs.  A location is the sequence of the      *)
(* path's segments; an absolute path starts with the Root segment.         *)
(***************************************************************************)
Root == <<"/">>

RECURSIVE Segments(_)
Segments(p) ==
  IF p = <<>> THEN <<>>
  ELSE LET cut == {i \in 1..Len(p) : p[i] = "/"}
       IN IF cut = {} THEN <<p>>
          ELSE LET i == CHOOSE k \in cut : \A j \in cut : k <= j
                   rest == Segments(SubSeq(p, i + 1, Len(p)))
               IN IF i = 1 THEN rest ELSE <<SubSeq(p, 1, i - 1)>> \o rest

Resolve(p) ==
  (IF p # <<>> /\ p[1] = "/" THEN <<Root>> ELSE <<>>) \o Segments(p)

TrailingSlash(p) == p # <<>> /\ p[Len(p)] = "/"
Parent(k) == SubSeq(k, 1, Len(k) - 1)
Prefixes(k) == {SubSeq(k, 1, i) : i \in 1..Len(k)}
IsBase(k) == k = <<>> \/ k = <<Root>>
IsDir(f, k) == IsBase(k) \/ k \in f.dirs
IsFile(f, k) == k \in DOMAIN f.files

\* What a path lookup finds: "file", "dir", or the error code of the lookup.
PathStatus(f, p) ==
  LET k == Resolve(p)
  IN IF p = <<>> THEN "ENOENT"
     ELSE IF \E q \in Prefixes(k) : q # k /\ IsFile(f, q) THEN "ENOTDIR"
     ELSE IF IsDir(f, k) THEN "dir"
     ELSE IF IsFile(f, k) THEN (IF TrailingSlash(p) THEN "ENOTDIR" ELSE "file")
     ELSE "ENOENT"

(***************************************************************************)
(* Configuration objects are mappings from option names to values.         *)
(***************************************************************************)
EmptyConf == [k \in {} |-> Null]
Has(conf, key) == key \in DOMAIN conf
IsTrue(conf, key) == Has(conf, key) /\ conf[key] = Bool(TRUE)
Put(m, key, v) == [k \in DOMAIN m \cup {key} |-> IF k = key THEN v ELSE m[k]]
Drop(m, keys) == [k \in DOMAIN m \ keys |-> m[k]]

\* fs.constants.F_OK and fs.constants.R_OK
F_OK == 0
R_OK == 4

(***************************************************************************)
(* The underlying calls.  Each gives the callback's error code ("" for     *)
(* none), the callback's value, and the file system it leaves.             *)
(***************************************************************************)
Done(f, v) == [err |-> "", val |-> v, fs |-> f]
Fail(f, code) == [err |-> code, val |-> Undefined, fs |-> f]

\* fs.access(filePath, permissions, cb)
fsAccess(f, filePath, permissions) ==
  LET st == PathStatus(f, filePath)
  IN IF st \notin {"file", "dir"} THEN Fail(f, st)
     ELSE IF permissions = R_OK /\ Resolve(filePath) \in f.locked
          THEN Fail(f, "EACCES")
     ELSE Done(f, Undefined)

\* fs.readFile(x, format, cb)
fsReadFile(f, x, format) ==
  LET st == PathStatus(f, x)
  IN IF st = "dir" THEN Fail(f, "EISDIR")
     ELSE IF st # "file" THEN Fail(f, st)
     ELSE IF Resolve(x) \in f.locked THEN Fail(f, "EACCES")
     ELSE Done(f, Str(f.files[Resolve(x)]))

\* fs.writeFile(file, content, conf, cb)
fsWriteFile(f, file, content, conf) ==
  LET st == PathStatus(f, file)
      k == Resolve(file)
  IN IF st = "dir" THEN Fail(f, "EISDIR")
     ELSE IF st = "ENOTDIR" THEN Fail(f, "ENOTDIR")
     ELSE IF st = "ENOENT" /\ (file = <<>> \/ ~IsDir(f, Parent(k)))
          THEN Fail(f, "ENOENT")
     ELSE IF TrailingSlash(file) THEN Fail(f, "EISDIR")
     ELSE Done([f EXCEPT !.files = Put(f.files, k, content)], Undefined)

IsUnder(k, q) == Len(q) >= Len(k) /\ SubSeq(q, 1, Len(k)) = k

\* fs.rm(fd, options, cb)
fsRm(f, fd, options) ==
  LET st == PathStatus(f, fd)
      k == Resolve(fd)
  IN IF st = "ENOENT"
     THEN (IF IsTrue(options, "force") THEN Done(f, Undefined)
           ELSE Fail(f, "ENOENT"))
     ELSE IF st = "ENOTDIR" THEN Fail(f, "ENOTDIR")
     ELSE IF st = "file"
     THEN Done([f EXCEPT !.files = Drop(f.files, {k}),
                         !.locked = f.locked \ {k}], Undefined)
     ELSE IF IsBase(k) THEN Fail(f, "EINVAL")
     ELSE IF ~IsTrue(options, "recursive") THEN Fail(f, "ERR_FS_EISDIR")
     ELSE Done([dirs |-> {d \in f.dirs : ~IsUnder(k, d)},
                files |-> Drop(f.files,
                               {q \in DOMAIN f.files : IsUnder(k, q)}),
                locked |-> {q \in f.locked : ~IsUnder(k, q)}], Undefined)

\* fs.mkdir(x, conf, cb)
fsMkdir(f, x, conf) ==
  LET st == PathStatus(f, x)
      k == Resolve(x)
  IN IF x = <<>> THEN Fail(f, "ENOENT")
     ELSE IF st = "ENOTDIR" THEN Fail(f, "ENOTDIR")
     ELSE IF st = "file" THEN Fail(f, "EEXIST")
     ELSE IF IsTrue(conf, "recursive")
     THEN Done([f EXCEPT !.dirs = f.dirs \cup {q \in Prefixes(k) : ~IsBase(q)}],
               Undefined)
     ELSE IF st = "dir" THEN Fail(f, "EEXIST")
     ELSE IF ~IsDir(f, Parent(k)) THEN Fail(f, "ENOENT")
     ELSE Done([f EXCEPT !.dirs = f.dirs \cup {k}], Undefined)

(***************************************************************************)
(* Futures.  A Future is inert data: what it would call when it is run.    *)
(*   "call"     Future((bad, good) => { <underlying call>; return cancel })*)
(*              with an optional map / mapRej stage on its settlement      *)
(*   "race"     race(a)(b), nested races flattened: items run together     *)
(*   "parallel" parallel(n)(items)                                         *)
(*   "chain"    chain(() => next)(chainRej(() => recover)(first))          *)
(* eager is the set of underlying calls made while the Future is being     *)
(* constructed, outside the Future's body.                                 *)
(***************************************************************************)
NO_OP == "NO_OP"

Request(fn, path, perm, conf, content) ==
  [fn |-> fn, path |-> path, perm |-> perm, conf |-> conf, content |-> content]

\* A wrapper that makes its underlying call while it builds the Future
FutureOfEager(cancel, request) ==
  [isFuture |-> TRUE, shape |-> "call", request |-> request, stage |-> <<>>,
   cancel |-> cancel, eager |-> {request}]

FutureOf(cancel, request) ==
  [isFuture |-> TRUE, shape |-> "call", request |-> request, stage |-> <<>>,
   cancel |-> cancel, eager |-> {}]

\* A value that is not a Future
Plain(v) == [isFuture |-> FALSE, shape |-> "value", val |-> v, eager |-> {}]

isFuture(x) == x.isFuture

Utf8Conf == [k \in {"encoding"} |-> Str("utf8")]

\* src/fs.js: the wrappers.  Constructing one calls nothing.
readFileWithFormatAndCancel(cancel, format, x) ==
  FutureOf(cancel, Request("readFile", x, F_OK,
                           [k \in {"encoding"} |-> Str(format)], ""))
readFileWithCancel(cancel, x) == readFileWithFormatAndCancel(cancel, "utf8", x)
readFile(x) == readFileWithCancel(NO_OP, x)

writeFileWithConfigAndCancel(cancel, conf, file, content) ==
  FutureOf(cancel, Request("writeFile", file, F_OK, conf, content))
writeFileWithConfig(conf, file, content) ==
  writeFileWithConfigAndCancel(NO_OP, conf, file, content)
writeFile(file, content) == writeFileWithConfig(Utf8Conf, file, content)

removeFileWithConfigAndCancel(cancel, options, fd) ==
  FutureOf(cancel, Request("rm", fd, F_OK, options, ""))
removeFileWithConfig(options, fd) ==
  removeFileWithConfigAndCancel(NO_OP, options, fd)
rm(fd) == removeFileWithConfig(EmptyConf, fd)
removeFile(fd) == rm(fd)
rimraf(fd) ==
  removeFileWithConfig([k \in {"force", "recursive"} |-> Bool(TRUE)], fd)

mkdirWithCancel(cancel, conf, x) ==
  FutureOf(cancel, Request("mkdir", x, F_OK, conf, ""))
mkdir(conf, x) == mkdirWithCancel(NO_OP, conf, x)
mkdirp(x) == mkdir([k \in {"recursive"} |-> Bool(TRUE)], x)

access(permissions, filePath) ==
  FutureOf(NO_OP, Request("access", filePath, permissions, EmptyConf, ""))
exists(filePath) == access(F_OK, filePath)
readable(filePath) == access(R_OK, filePath)

(***************************************************************************)
(* fluture's combinators, as far as src/fs.js uses them.                   *)
(***************************************************************************)
\* map(f)(m) and mapRej(f)(m) on a "call" Future: a stage on its settlement
map(f, m) == [m EXCEPT !.stage = <<"map", f>>]
mapRej(f, m) == [m EXCEPT !.stage = <<"mapRej", f>>]

Items(m) == IF m.shape = "race" THEN m.items ELSE <<m>>
race(a, b) ==
  [isFuture |-> TRUE, shape |-> "race", items |-> Items(a) \o Items(b),
   eager |-> a.eager \cup b.eager]

RECURSIVE EagerOf(_)
EagerOf(list) ==
  IF list = <<>> THEN {} ELSE Head(list).eager \cup EagerOf(Tail(list))

parallel(n, list) ==
  [isFuture |-> TRUE, shape |-> "parallel", n |-> n, items |-> list,
   eager |-> EagerOf(list)]

\* chain(() => next)(chainRej(() => recover)(first))
chainAfterRecover(first, recover, next) ==
  [isFuture |-> TRUE, shape |-> "chain", first |-> first, recover |-> recover,
   next |-> next, eager |-> first.eager]

(***************************************************************************)
(* ramda's helpers, as far as src/fs.js uses them.                         *)
(***************************************************************************)
\* without(xs, list) is reject(x => xs includes x, list); on an object,
\* reject filters the properties by their VALUES and keeps the keys.
without(xs, obj) == [k \in {j \in DOMAIN obj : obj[j] \notin xs} |-> obj[k]]

\* propOr(d, key, obj)
propOr(d, key, obj) ==
  IF Has(obj, key) /\ obj[key] \notin {Null, Undefined} THEN obj[key] ELSE d

\* F: always false
F(x) == Bool(FALSE)

(***************************************************************************)
(* src/fs.js: the composites.                                              *)
(***************************************************************************)
readJSONFileWithCancel(cancel, x) ==
  map("JSON.parse", readFileWithCancel(cancel, x))
readJSONFile(x) == readJSONFileWithCancel(NO_OP, x)

readDirWithConfigAndCancel(cancel, conf, g) ==
  FutureOf(cancel, Request("glob", g, F_OK, conf, ""))
readDirWithConfig(conf, g) == readDirWithConfigAndCancel(NO_OP, conf, g)
readDir(g) == readDirWithConfig(EmptyConf, g)

DEFAULT_REMOVAL_CONFIG ==
  [k \in {"force", "maxRetries", "recursive", "retryDelay", "parallel"} |->
     CASE k = "force" -> Bool(FALSE)
       [] k = "maxRetries" -> Num(0)
       [] k = "recursive" -> Bool(FALSE)
       [] k = "retryDelay" -> Num(100)
       [] k = "parallel" -> Num(10)]

DefaultParallel == 10

\* The options object each per-file removal is given
RemovalOptions(conf) == without({Str("parallel")}, conf)

\* The degree read from a key the configuration never has
ParallelDegreeWrongKey(conf) ==
  propOr(Num(10), "parallelism", conf).n

\* The degree of parallelism of a batch
ParallelDegree(conf) == propOr(Num(DefaultParallel), "parallel", conf).n

\* A batch that leaves out the last path of the list
removeFilesDroppingLast(cancel, conf, list) ==
  parallel(ParallelDegree(conf),
           [i \in 1..(Len(list) - 1) |->
              removeFileWithConfigAndCancel(cancel, RemovalOptions(conf),
                                            list[i])])

removeFilesWithConfigAndCancel(cancel, conf, list) ==
  parallel(ParallelDegree(conf),
           [i \in 1..Len(list) |->
              removeFileWithConfigAndCancel(cancel, RemovalOptions(conf),
                                            list[i])])
removeFilesWithConfig(conf, list) ==
  removeFilesWithConfigAndCancel(NO_OP, conf, list)
removeFiles(list) == removeFilesWithConfig(DEFAULT_REMOVAL_CONFIG, list)

\* An auto-path write that recovers with a plain, non-recursive mkdir
writeFileWithPlainMkdir(filePath, content) ==
  LET dir == directoryOnly(filePath)
  IN chainAfterRecover(exists(dir), mkdir(EmptyConf, dir),
                       writeFile(filePath, content))

writeFileWithAutoPath(filePath, content) ==
  LET dir == directoryOnly(filePath)
  IN chainAfterRecover(exists(dir), mkdirp(dir), writeFile(filePath, content))

\* ioWithCancel(cancel, fn, fd, buffer, offset, len, position)
ioWithCancel(cancel, fn, fd, len) ==
  FutureOf(cancel, Request(fn, <<>>, fd, EmptyConf, ""))
io(fn, fd, len) == ioWithCancel(NO_OP, fn, fd, len)
read(fd, len) == io("read", fd, len)
write(fd, len) == io("write", fd, len)

\* The probes findFile is used with
Probe(fn, x) == IF fn = "readFile" THEN readFile(x) ELSE readable(x)

\* reduce((a, b) => (isFuture(a) ? race(a)(b) : b), def)
RECURSIVE reduceRace(_, _)
reduceRace(acc, list) ==
  IF list = <<>> THEN acc
  ELSE reduceRace(IF isFuture(acc) THEN race(acc, Head(list)) ELSE Head(list),
                  Tail(list))

findFile(fn, def, x) ==
  reduceRace(def, [i \in 1..Len(x) |-> mapRej("F", Probe(fn, x[i]))])
readAnyOr(def, format, x) == findFile("readFile", def, x)
readAny(format, x) == readAnyOr(Plain(Null), format, x)
requireAnyOr(def, x) == findFile("readable", def, x)

(***************************************************************************)
(* Running a Future.                                                       *)
(***************************************************************************)
Pending == [kind |-> "none", val |-> Undefined]
Resolved(v) == [kind |-> "resolved", val |-> v]
Rejected(v) == [kind |-> "rejected", val |-> v]
\* An exception leaves the run: no handler of the caller is given it.
Thrown(v) == [kind |-> "thrown", val |-> v]

JSON_A1 == "{\"a\":1}"
Contents == {JSON_A1, "cool"}

\* JSON.parse
JSONparseThrows(text) == text # JSON_A1
JSONparse(text) == Obj([k \in {"a"} |-> Num(1)])

\* The literal pattern g matches the location it names, if there is one.
globMatches(f, g) ==
  IF PathStatus(f, g) \in {"file", "dir"} THEN ListVal(<<g>>) ELSE ListVal(<<>>)

\* glob(g, conf) is the promise-returning call (the code chains .catch and
\* .then on what it returns).  It has no option sync: the key is not read and
\* the walk is done as without it.  Options that contradict each other
\* (matchBase with noglobstar) make the call reject.
GlobOptionsError == "base matching requires globstar"
globRejects(conf) == IsTrue(conf, "matchBase") /\ IsTrue(conf, "noglobstar")
globCall(f, g, conf) ==
  IF globRejects(conf) THEN Fail(f, GlobOptionsError)
  ELSE Done(f, globMatches(f, g))

\* fs.read / fs.write on a descriptor
fsIo(f, fd) == IF fd \in f.fds THEN Done(f, Num(1)) ELSE Fail(f, "EBADF")

\* The underlying call a request names, performed on file system f
Perform(f, rq) ==
  CASE rq.fn = "readFile" -> fsReadFile(f, rq.path, rq.conf["encoding"].s)
    [] rq.fn = "writeFile" -> fsWriteFile(f, rq.path, rq.content, rq.conf)
    [] rq.fn = "rm" -> fsRm(f, rq.path, rq.conf)
    [] rq.fn = "mkdir" -> fsMkdir(f, rq.path, rq.conf)
    [] rq.fn = "access" -> fsAccess(f, rq.path, rq.perm)
    [] rq.fn = "glob" -> globCall(f, rq.path, rq.conf)
    [] rq.fn \in {"read", "write"} -> fsIo(f, rq.perm)

\* The callbacks the wrappers hand to the underlying calls: id names the
\* call, r is what the call produced.
readFileCallback(rq, id, r) ==
  IF r.err # "" THEN Rejected(Err(r.err, id)) ELSE Resolved(r.val)
\* A write callback that fails with the error's code instead of the error
writeFileCallbackCodeOnly(rq, id, r) ==
  IF r.err # "" THEN Rejected(Str(r.err)) ELSE Resolved(Str(rq.content))
writeFileCallback(rq, id, r) ==
  IF r.err # "" THEN Rejected(Err(r.err, id)) ELSE Resolved(Str(rq.content))
\* A removal callback that reports success whatever the call produced
removeFileCallbackSwallow(rq, id, r) == Resolved(PathVal(rq.path))
removeFileCallback(rq, id, r) ==
  IF r.err # "" THEN Rejected(Err(r.err, id)) ELSE Resolved(PathVal(rq.path))
mkdirCallback(rq, id, r) ==
  IF r.err # "" THEN Rejected(Err(r.err, id)) ELSE Resolved(PathVal(rq.path))
accessCallback(rq, id, r) ==
  IF r.err # "" THEN Rejected(Err(r.err, id)) ELSE Resolved(Bool(TRUE))
ioCallback(rq, id, r) ==
  IF r.err # "" THEN Rejected(Err(r.err, id)) ELSE Resolved(r.val)
\* glob(g, conf).catch(bad).then(good): what the promise chain calls, in
\* order.  When glob rejects, catch calls bad(err) and its promise resolves
\* with what bad returned, so then calls good(undefined) after it.
readDirInvocations(rq, id, r) ==
  IF r.err # "" THEN <<Rejected(Err(r.err, id)), Resolved(Undefined)>>
  ELSE <<Resolved(r.val)>>
\* A Future that hands every call of bad and good on to the handlers
settleEvery(invocations) == invocations
\* The (bad, good) a Future body is given settle the Future once: the first
\* call counts and later calls are ignored.
settleOnce(invocations) == <<invocations[1]>>
readDirCallback(rq, id, r) == settleOnce(readDirInvocations(rq, id, r))[1]

Callback(rq, id, r) ==
  CASE rq.fn = "readFile" -> readFileCallback(rq, id, r)
    [] rq.fn = "writeFile" -> writeFileCallback(rq, id, r)
    [] rq.fn = "rm" -> removeFileCallback(rq, id, r)
    [] rq.fn = "mkdir" -> mkdirCallback(rq, id, r)
    [] rq.fn = "access" -> accessCallback(rq, id, r)
    [] rq.fn = "glob" -> readDirCallback(rq, id, r)
    [] rq.fn \in {"read", "write"} -> ioCallback(rq, id, r)

\* The calls of bad and good a wrapper's body makes when its call produced r
Invocations(rq, id, r) ==
  IF rq.fn = "glob" THEN readDirInvocations(rq, id, r)
  ELSE <<Callback(rq, id, r)>>

\* fluture's map: the mapper runs on the resolution; an exception it throws
\* is not turned into a rejection, it leaves the run.
mapStage(f, s) ==
  IF s.kind # "resolved" THEN s
  ELSE IF JSONparseThrows(s.val.s) THEN Thrown(Exception("SyntaxError"))
  ELSE Resolved(JSONparse(s.val.s))

\* fluture's mapRej: the mapper runs on the rejection, which stays one.
mapRejStage(f, s) == IF s.kind # "rejected" THEN s ELSE Rejected(F(s.val))

ApplyStage(stage, s) ==
  IF stage = <<>> THEN s
  ELSE IF stage[1] = "map" THEN mapStage(stage[2], s)
  ELSE mapRejStage(stage[2], s)

\* What a "call" Future settles with when its underlying call produced r
Settlement(m, id, r) == ApplyStage(m.stage, Callback(m.request, id, r))

\* What a "call" Future passes on, in order, when its call produced r
Delivered(m, id, r) ==
  LET x == settleOnce(Invocations(m.request, id, r))
  IN [i \in 1..Len(x) |-> ApplyStage(m.stage, x[i])]
\* The caller's handlers fire for resolutions and rejections (an exception
\* reaches neither handler).
Handled(d) == SelectSeq(d, LAMBDA s : s.kind \in {"resolved", "rejected"})

(***************************************************************************)
(* The state: the file system, what the caller asks for, the Future the    *)
(* library built for it, and the runs of that Future.                      *)
(***************************************************************************)
VARIABLES
  fs,       \* the file system: dirs, files (location -> content), locked, fds
  fs0,      \* the file system the caller started from
  req,      \* the caller's request: the operation and its arguments
  comp,     \* what the library returned for req
  phase,    \* "unbuilt", "built", "running", "settled"
  runs,     \* how many times comp was run
  calls,    \* the underlying calls made so far
  outcome,  \* what the current run handed to the caller
  fired     \* the firings of the caller's handlers in the current run

vars == <<fs, fs0, req, comp, phase, runs, calls, outcome, fired>>

PathChars == {"a", "/"}
Paths == UNION {[1..n -> PathChars] : n \in 0..MaxPathLen}

Loc(p) == Resolve(p)
MkFs(dirs, files, locked, fds) ==
  [dirs |-> dirs, files |-> files, locked |-> locked, fds |-> fds]
NoFiles == [k \in {} |-> ""]
EmptyFs == MkFs({}, NoFiles, {}, {})
\* a/ (directory), a/a (JSON), aa (text); descriptor 3 is open
TreeFs ==
  MkFs({Loc(<<"a">>)},
       [k \in {Loc(<<"a", "/", "a">>), Loc(<<"a", "a">>)} |->
          IF k = Loc(<<"a", "a">>) THEN "cool" ELSE JSON_A1],
       {}, {3})
\* a (JSON, not readable), aa (text)
LockedFs ==
  MkFs({},
       [k \in {Loc(<<"a">>), Loc(<<"a", "a">>)} |->
          IF k = Loc(<<"a", "a">>) THEN "cool" ELSE JSON_A1],
       {Loc(<<"a">>)}, {})
Fixtures == {EmptyFs, TreeFs, LockedFs}

Req(op, path, content, conf, list, def, probe, fd) ==
  [op |-> op, path |-> path, content |-> content, conf |-> conf,
   list |-> list, def |-> def, probe |-> probe, fd |-> fd]

PathOps == {"readFile", "readJSONFile", "readDir", "removeFile", "rimraf",
            "mkdir", "mkdirp", "exists", "readable"}
WriteOps == {"writeFile", "writeFileWithAutoPath"}
IoOps == {"read", "write"}
BatchOps == {"removeFilesWithConfig", "removeFiles"}
FindOps == {"findFile", "readAnyOr", "requireAnyOr"}

\* The path of the i-th file of a batch: "a", "aa", "aaa", ...
BatchPath(i) == [j \in 1..i |-> "a"]
BatchList(n) == [i \in 1..n |-> BatchPath(i)]
BatchFs(n, missing) ==
  MkFs({}, [k \in {Loc(BatchPath(i)) : i \in (1..n) \ missing} |-> "cool"],
       {}, {})
BatchConfs ==
  {EmptyConf,
   DEFAULT_REMOVAL_CONFIG,
   [k \in {"parallel"} |-> Num(1)],
   [k \in {"parallel", "force"} |-> IF k = "force" THEN Bool(TRUE) ELSE Num(2)],
   [k \in {"parallel", "label"} |->
      IF k = "label" THEN Str("parallel") ELSE Num(2)]}
\* Short lists for every configuration; for a configuration that leaves the
\* degree to the default, also lists longer than the default degree.
BatchSizes(conf) ==
  (0..MaxList) \cup
  (IF Has(conf, "parallel") THEN {}
   ELSE (DefaultParallel + 1)..(DefaultParallel + MaxExtra))

\* Configurations handed to glob: none, sync mode requested, and options
\* glob refuses (alone and with sync mode).
GlobConfs ==
  {EmptyConf,
   [k \in {"sync"} |-> Bool(TRUE)],
   [k \in {"matchBase", "noglobstar"} |-> Bool(TRUE)],
   [k \in {"sync", "matchBase", "noglobstar"} |-> Bool(TRUE)]}

FindPool == {<<"a">>, <<"a", "a">>, <<"a", "a", "a">>}
FindLists == UNION {[1..n -> FindPool] : n \in 0..MaxList}
Defaults == {Null, Str("cool")}

\* What the library returns for a request
Build(r) ==
  CASE r.op = "readFile" -> readFile(r.path)
    [] r.op = "readJSONFile" -> readJSONFile(r.path)
    [] r.op = "readDir" -> readDir(r.path)
    [] r.op = "readDirWithConfig" -> readDirWithConfig(r.conf, r.path)
    [] r.op = "writeFile" -> writeFile(r.path, r.content)
    [] r.op = "removeFile" -> removeFile(r.path)
    [] r.op = "rimraf" -> rimraf(r.path)
    [] r.op = "mkdir" -> mkdir(EmptyConf, r.path)
    [] r.op = "mkdirp" -> mkdirp(r.path)
    [] r.op = "exists" -> exists(r.path)
    [] r.op = "readable" -> readable(r.path)
    [] r.op = "read" -> read(r.fd, 1)
    [] r.op = "write" -> write(r.fd, 1)
    [] r.op = "writeFileWithAutoPath" -> writeFileWithAutoPath(r.path, r.content)
    [] r.op = "removeFilesWithConfig" -> removeFilesWithConfig(r.conf, r.list)
    [] r.op = "removeFiles" -> removeFiles(r.list)
    [] r.op = "findFile" -> findFile(r.probe, Plain(r.def), r.list)
    [] r.op = "readAnyOr" -> readAnyOr(Plain(r.def), "utf8", r.list)
    [] r.op = "requireAnyOr" -> requireAnyOr(Plain(r.def), r.list)

Init ==
  /\ comp = Plain(Undefined)
  /\ phase = "unbuilt"
  /\ runs = 0
  /\ calls = {}
  /\ outcome = Pending
  /\ fired = <<>>
  /\ \/ \E op \in PathOps, p \in Paths, f \in Fixtures :
          /\ fs = f
          /\ req = Req(op, p, "", EmptyConf, <<>>, Null, "", 0)
     \/ \E op \in WriteOps, p \in Paths, c \in Contents, f \in Fixtures :
          /\ fs = f
          /\ req = Req(op, p, c, EmptyConf, <<>>, Null, "", 0)
     \/ \E conf \in GlobConfs, g \in Paths, f \in Fixtures :
          /\ fs = f
          /\ req = Req("readDirWithConfig", g, "", conf, <<>>, Null, "", 0)
     \/ \E op \in IoOps, fd \in {3, 100}, f \in Fixtures :
          /\ fs = f
          /\ req = Req(op, <<>>, "", EmptyConf, <<>>, Null, "", fd)
     \/ \E conf \in BatchConfs :
        \E n \in BatchSizes(conf) :
        \E missing \in SUBSET (1..Min(n, MaxMissing)) :
          /\ fs = BatchFs(n, missing)
          /\ req = Req("removeFilesWithConfig", <<>>, "", conf, BatchList(n),
                       Null, "", 0)
     \/ \E n \in BatchSizes(DEFAULT_REMOVAL_CONFIG) :
        \E missing \in SUBSET (1..Min(n, MaxMissing)) :
          /\ fs = BatchFs(n, missing)
          /\ req = Req("removeFiles", <<>>, "", EmptyConf, BatchList(n),
                       Null, "", 0)
     \/ \E probe \in {"readFile", "readable"}, def \in Defaults,
           list \in FindLists, f \in Fixtures :
          /\ fs = f
          /\ req = Req("findFile", <<>>, "", EmptyConf, list, def, probe, 0)
     \/ \E op \in {"readAnyOr", "requireAnyOr"}, list \in FindLists,
           f \in Fixtures :
          /\ fs = f
          /\ req = Req(op, <<>>, "", EmptyConf, list, Null, "", 0)
  /\ fs0 = fs

(***************************************************************************)
(* Underlying calls in flight.  A call is named by the run that made it    *)
(* and its slot in that run: the item's index in a race or a batch; in a   *)
(* chain 1 is the first Future, 2 the recovery, 3 the continuation.        *)
(***************************************************************************)
Issue(run, slot, rq) ==
  [run |-> run, slot |-> slot, rq |-> rq, state |-> "pending", code |-> ""]
Id(c) == <<c.run, c.slot>>
Returned(c, r) ==
  [c EXCEPT !.state = IF r.err = "" THEN "ok" ELSE "err", !.code = r.err]
InFlight(run) == {c \in calls : c.run = run /\ c.state = "pending"}
CallsOf(run) == {c \in calls : c.run = run}
Live(c) == phase = "running" /\ c.run = runs /\ c.state = "pending"

\* The calls a Future makes at the moment it is run
StartOf(m) ==
  CASE m.shape = "call" -> {<<1, m.request>>}
    [] m.shape = "race" ->
         {<<i, m.items[i].request>> : i \in 1..Len(m.items)}
    [] m.shape = "parallel" ->
         {<<i, m.items[i].request>> : i \in 1..Min(m.n, Len(m.items))}
    [] m.shape = "chain" -> {<<1, m.first.request>>}

\* Calling a wrapper or a composite: the library builds what it returns.
Construct ==
  /\ phase = "unbuilt"
  /\ comp' = Build(req)
  /\ calls' = calls \cup {Issue(0, 1, rq) : rq \in Build(req).eager}
  /\ phase' = "built"
  /\ UNCHANGED <<fs, fs0, req, runs, outcome, fired>>

\* fork(onFailure)(onSuccess)(comp): the caller runs what it was given, and
\* runs it again only once the calls of the run before have returned.
\* fork throws a TypeError when it is given something that is no Future;
\* parallel of no Futures resolves at once with the empty list.
Fork ==
  /\ phase \in {"built", "settled"}
  /\ runs < MaxRuns
  /\ InFlight(runs) = {}
  /\ runs' = runs + 1
  /\ IF ~isFuture(comp)
     THEN /\ outcome' = Thrown(Exception("TypeError"))
          /\ phase' = "settled"
          /\ calls' = calls
     ELSE /\ calls' = calls \cup
                      {Issue(runs + 1, x[1], x[2]) : x \in StartOf(comp)}
          /\ IF StartOf(comp) = {}
             THEN outcome' = Resolved(ListVal(<<>>)) /\ phase' = "settled"
             ELSE outcome' = Pending /\ phase' = "running"
  /\ fired' = Handled(<<outcome'>>)
  /\ UNCHANGED <<fs, fs0, req, comp>>

\* The underlying call of a single-call Future returns.
CallReturns ==
  \E c \in calls :
    /\ Live(c)
    /\ comp.shape = "call"
    /\ LET r == Perform(fs, c.rq)
       IN /\ fs' = r.fs
          /\ calls' = (calls \ {c}) \cup {Returned(c, r)}
          /\ outcome' = Settlement(comp, Id(c), r)
          /\ fired' = fired \o Handled(Delivered(comp, Id(c), r))
          /\ phase' = "settled"
    /\ UNCHANGED <<fs0, req, comp, runs>>

\* race: the first item to settle, either way, settles the race.
RaceReturns ==
  \E c \in calls :
    /\ Live(c)
    /\ comp.shape = "race"
    /\ LET r == Perform(fs, c.rq)
       IN /\ fs' = r.fs
          /\ calls' = (calls \ {c}) \cup {Returned(c, r)}
          /\ outcome' = Settlement(comp.items[c.slot], Id(c), r)
          /\ fired' = fired \o Handled(Delivered(comp.items[c.slot], Id(c), r))
          /\ phase' = "settled"
    /\ UNCHANGED <<fs0, req, comp, runs>>

\* parallel(n): a rejection rejects the batch; a resolution starts the next
\* item not yet started, and the last resolution resolves the batch with the
\* items' values in the order of the list.
ParallelReturns ==
  \E c \in calls :
    /\ Live(c)
    /\ comp.shape = "parallel"
    /\ LET r == Perform(fs, c.rq)
           s == Settlement(comp.items[c.slot], Id(c), r)
           started == Cardinality(CallsOf(runs))
           returned == Cardinality(CallsOf(runs) \ InFlight(runs)) + 1
           n == Len(comp.items)
       IN /\ fs' = r.fs
          /\ IF s.kind # "resolved"
             THEN /\ calls' = (calls \ {c}) \cup {Returned(c, r)}
                  /\ outcome' = s
                  /\ fired' = fired \o
                              Handled(Delivered(comp.items[c.slot], Id(c), r))
                  /\ phase' = "settled"
             ELSE IF started < n
             THEN /\ calls' = (calls \ {c}) \cup
                        {Returned(c, r),
                         Issue(runs, started + 1,
                               comp.items[started + 1].request)}
                  /\ UNCHANGED <<outcome, phase, fired>>
             ELSE IF returned = n
             THEN /\ calls' = (calls \ {c}) \cup {Returned(c, r)}
                  /\ outcome' =
                       Resolved(ListVal([i \in 1..n |->
                                           PathVal(comp.items[i].request.path)]))
                  /\ fired' = fired \o Handled(<<outcome'>>)
                  /\ phase' = "settled"
             ELSE /\ calls' = (calls \ {c}) \cup {Returned(c, r)}
                  /\ UNCHANGED <<outcome, phase, fired>>
    /\ UNCHANGED <<fs0, req, comp, runs>>

\* chain / chainRej: the first Future's rejection runs the recovery, its
\* resolution (or the recovery's) runs the continuation, whose settlement is
\* the chain's; the recovery's rejection is the chain's.
ChainReturns ==
  \E c \in calls :
    /\ Live(c)
    /\ comp.shape = "chain"
    /\ LET r == Perform(fs, c.rq)
           m == CASE c.slot = 1 -> comp.first
                  [] c.slot = 2 -> comp.recover
                  [] c.slot = 3 -> comp.next
           s == Settlement(m, Id(c), r)
       IN /\ fs' = r.fs
          /\ IF c.slot = 1 /\ s.kind = "rejected"
             THEN /\ calls' = (calls \ {c}) \cup
                        {Returned(c, r), Issue(runs, 2, comp.recover.request)}
                  /\ UNCHANGED <<outcome, phase, fired>>
             ELSE IF c.slot \in {1, 2} /\ s.kind = "resolved"
             THEN /\ calls' = (calls \ {c}) \cup
                        {Returned(c, r), Issue(runs, 3, comp.next.request)}
                  /\ UNCHANGED <<outcome, phase, fired>>
             ELSE /\ calls' = (calls \ {c}) \cup {Returned(c, r)}
                  /\ outcome' = s
                  /\ fired' = fired \o Handled(Delivered(m, Id(c), r))
                  /\ phase' = "settled"
    /\ UNCHANGED <<fs0, req, comp, runs>>

\* A call whose Future was cancelled (it lost a race, its batch failed)
\* returns: every cancel in use is NO_OP, so the call still acts on the file
\* system, and its callback reaches no handler.
AbandonedReturns ==
  \E c \in calls :
    /\ c.state = "pending"
    /\ ~Live(c)
    /\ LET r == Perform(fs, c.rq)
       IN /\ fs' = r.fs
          /\ calls' = (calls \ {c}) \cup {Returned(c, r)}
    /\ UNCHANGED <<fs0, req, comp, phase, runs, outcome, fired>>

Next ==
  \/ Construct
  \/ Fork
  \/ CallReturns
  \/ RaceReturns
  \/ ParallelReturns
  \/ ChainReturns
  \/ AbandonedReturns

Spec == Init /\ [][Next]_vars

(***************************************************************************)
(* Properties.                                                             *)
(***************************************************************************)
IsBatch == req.op \in BatchOps
IsFind == req.op \in FindOps
\* The configuration a batch request runs with
ConfOf(r) == IF r.op = "removeFiles" THEN DEFAULT_REMOVAL_CONFIG ELSE r.conf
\* The probe of a lookup request
ProbeOf(r) ==
  CASE r.op = "findFile" -> r.probe
    [] r.op = "readAnyOr" -> "readFile"
    [] r.op = "requireAnyOr" -> "readable"
\* Candidate x can be read on file system f
CanRead(f, x) == fsReadFile(f, x, "utf8").err = ""
Quiet == phase = "settled" /\ InFlight(runs) = {}

\* C1: findFile(readFile, null, list) on a list of one readable and one
\* missing path, in either order and whichever read returns first, succeeds
\* with the contents of the readable path.
C1_ReadableCandidateWins ==
  (/\ IsFind
   /\ ProbeOf(req) = "readFile"
   /\ Len(req.list) = 2
   /\ phase = "settled"
   /\ \E i, j \in 1..2 :
        /\ CanRead(fs0, req.list[i])
        /\ PathStatus(fs0, req.list[j]) = "ENOENT")
  => \E i \in 1..2 :
       /\ CanRead(fs0, req.list[i])
       /\ outcome = Resolved(fsReadFile(fs0, req.list[i], "utf8").val)

\* C2: readJSONFile on a file that is read but holds malformed JSON ends in
\* the failure handler with the parser's error; nothing is thrown and the
\* success handler does not fire.
C2_ParseErrorIsRejection ==
  (/\ req.op = "readJSONFile"
   /\ phase = "settled"
   /\ \E c \in CallsOf(runs) : c.state = "ok"
   /\ CanRead(fs0, req.path)
   /\ JSONparseThrows(fs0.files[Loc(req.path)]))
  => outcome = Rejected(Exception("SyntaxError"))

\* C3: the options every per-file removal of a batch is given have no
\* `parallel` key and otherwise equal the batch's configuration.
C3_ParallelStripped ==
  IsBatch =>
    \A c \in calls :
      /\ ~Has(c.rq.conf, "parallel")
      /\ c.rq.conf = Drop(ConfOf(req), {"parallel"})

\* C8: findFile(probe, def, []) run by the caller yields def as the outcome of
\* the computation it returns, and no underlying call is made.
C8_EmptyListYieldsDefault ==
  (IsFind /\ req.list = <<>> /\ runs >= 1)
  => (outcome = Resolved(req.def) /\ calls = {})

\* C4: in every state of a run of a batch removal, the removals started and
\* not yet returned number at most the configuration's `parallel`, and at
\* most 10 when the configuration has no `parallel` key.
C4_InFlightBounded ==
  IsBatch =>
    \A r \in 1..runs :
      Cardinality(InFlight(r)) <=
        (IF Has(ConfOf(req), "parallel") THEN ConfOf(req)["parallel"].n
         ELSE 10)

\* C4's case: the default degree is the limit; ten removals are in flight
\* and a path of the list waits.
C4_Witness ==
  /\ IsBatch
  /\ ~Has(ConfOf(req), "parallel")
  /\ Cardinality(InFlight(runs)) = 10
  /\ Cardinality(CallsOf(runs)) < Len(req.list)

RemovalsOf(r, x) == {c \in CallsOf(r) : c.rq.fn = "rm" /\ c.rq.path = x}
RunOver(r) == r < runs \/ phase = "settled"

\* C5 as stated: a finished run of a batch removal has issued a removal for
\* each of the N paths exactly once, whatever the removals' outcomes.
C5_EveryPathExactlyOnce ==
  (IsBatch /\ runs >= 1 /\ Quiet)
  => \A i \in 1..Len(req.list) :
       Cardinality(RemovalsOf(runs, req.list[i])) = 1

\* C5, amended: a run of a batch removal issues removals only for paths of
\* the list, at most one per path; a run in which no removal failed has,
\* once over, issued exactly one per path.
C5_AtMostOnceAndAllIfNoneFails ==
  IsBatch =>
    \A r \in 1..runs :
      /\ \A c \in CallsOf(r) :
           c.rq.fn = "rm" /\ \E i \in 1..Len(req.list) : c.rq.path = req.list[i]
      /\ \A i \in 1..Len(req.list) :
           Cardinality(RemovalsOf(r, req.list[i])) <= 1
      /\ (RunOver(r) /\ \A c \in CallsOf(r) : c.state # "err")
         => \A i \in 1..Len(req.list) :
              Cardinality(RemovalsOf(r, req.list[i])) = 1

\* C5's case: a batch longer than its degree has resolved.
C5_Witness ==
  /\ IsBatch
  /\ outcome.kind = "resolved"
  /\ Len(req.list) > ParallelDegree(ConfOf(req))
  /\ Cardinality(CallsOf(runs)) = Len(req.list)

\* C6: once a removal of a batch has failed, the batch has ended in the
\* failure handler with the error of a removal that failed, and not in the
\* success handler; every path whose removal returned stays removed.
C6_BatchFailsNoRollback ==
  IsBatch =>
    /\ (runs >= 1 /\ \E c \in CallsOf(runs) : c.state = "err")
       => /\ outcome.kind = "rejected"
          /\ \E c \in CallsOf(runs) :
               c.state = "err" /\ outcome.val = Err(c.code, Id(c))
    /\ \A c \in calls :
         c.state = "ok" => PathStatus(fs, c.rq.path) = "ENOENT"

\* C6's case: the batch failed, a file of the list was removed, another is
\* still there, and nothing is in flight.
C6_Witness ==
  /\ IsBatch
  /\ Quiet
  /\ outcome.kind = "rejected"
  /\ \E c \in CallsOf(runs) :
       c.state = "ok" /\ PathStatus(fs0, c.rq.path) = "file"
  /\ \E i \in 1..Len(req.list) : PathStatus(fs, req.list[i]) = "file"

IsFilePath(p) == p # <<>> /\ ~TrailingSlash(p)
Ancestors(p) == {q \in Prefixes(Loc(p)) : q # Loc(p) /\ ~IsBase(q)}
AncestorsAbsent(f, p) ==
  /\ Ancestors(p) # {}
  /\ \A q \in Ancestors(p) : q \notin f.dirs /\ q \notin DOMAIN f.files

\* C7: writeFileWithAutoPath(p, c), started with every ancestor directory of
\* p absent, succeeds with c, leaves the ancestors created and p holding c;
\* run again it succeeds again and makes no directory-creation call.
C7_AutoPathCreatesThenWrites ==
  (/\ req.op = "writeFileWithAutoPath"
   /\ IsFilePath(req.path)
   /\ AncestorsAbsent(fs0, req.path))
  => /\ \A c \in calls : c.run >= 2 => c.rq.fn # "mkdir"
     /\ phase = "settled"
        => /\ outcome = Resolved(Str(req.content))
           /\ Ancestors(req.path) \subseteq fs.dirs
           /\ IsFile(fs, Loc(req.path))
           /\ fs.files[Loc(req.path)] = req.content
           /\ \E c \in CallsOf(1) : c.rq.fn = "mkdir" /\ c.state = "ok"

\* C7's case: the second run of a write below two absent directories is over.
C7_Witness ==
  /\ req.op = "writeFileWithAutoPath"
  /\ IsFilePath(req.path)
  /\ AncestorsAbsent(fs0, req.path)
  /\ Cardinality(Ancestors(req.path)) >= 2
  /\ runs = 2
  /\ phase = "settled"

\* C9: building a computation makes no underlying call; calls are made only
\* by a run, and each run makes the computation's calls anew.
C9_NoCallUntilRunEachRunCalls ==
  /\ runs = 0 => calls = {}
  /\ \A c \in calls : c.run \in 1..runs
  /\ (phase # "unbuilt" /\ isFuture(comp))
     => \A r \in 1..runs :
          \A x \in StartOf(comp) :
            \E c \in calls : c.run = r /\ c.slot = x[1] /\ c.rq = x[2]

\* C9's case: the same readFile computation was run twice and read twice.
C9_Witness ==
  /\ req.op = "readFile"
  /\ runs = 2
  /\ Cardinality({c \in calls : c.rq.fn = "readFile"}) = 2

UnderlyingError(v) ==
  \E c \in CallsOf(runs) : c.state = "err" /\ v = Err(c.code, Id(c))
Covered ==
  req.op \in {"readFile", "writeFile", "removeFile", "removeFiles",
              "removeFilesWithConfig", "mkdir", "mkdirp", "rimraf", "exists",
              "readable", "read", "write", "writeFileWithAutoPath"}

\* C10 as stated: whenever a run of any operation, the lookups included,
\* ends in failure, the failure value is the error object an underlying call
\* of the run produced.
C10_FailureIsUnderlyingError ==
  ((Covered \/ IsFind) /\ outcome.kind = "rejected")
  => UnderlyingError(outcome.val)

\* C10, amended: a failed run of a wrapper, of a batch removal or of
\* writeFileWithAutoPath hands the caller the error object an underlying
\* call of the run produced; a failed run of findFile, readAnyOr or
\* requireAnyOr hands the caller `false`.
C10_PassthroughExceptLookup ==
  outcome.kind = "rejected" =>
    /\ Covered => UnderlyingError(outcome.val)
    /\ IsFind => outcome.val = Bool(FALSE)

\* C10's case: writeFile failed below a missing directory.
C10_Witness ==
  /\ req.op = "writeFile"
  /\ outcome.kind = "rejected"
  /\ outcome.val.code = "ENOENT"


\* The message of the error glob's callback-style call gives for sync mode
SyncMisuse == "callback provided to sync glob"

\* C11: a run of readDirWithConfig({sync: true}, pattern), for any pattern,
\* ends in the failure handler with an error whose message names the sync
\* misuse; nothing is thrown and the success handler does not fire.
C11_SyncModeFailsExplicitly ==
  (/\ req.op = "readDirWithConfig"
   /\ req.conf = [k \in {"sync"} |-> Bool(TRUE)]
   /\ phase = "settled")
  => /\ outcome.kind = "rejected"
     /\ outcome.val.code = SyncMisuse

\* C12: in a run at most one of the caller's two handlers fires, at most
\* once, and what fired is what the run handed over; when the glob call of a
\* readDir run rejects, the failure handler fires with glob's error and the
\* success handler does not fire after it.
C12_AtMostOneHandlerOnce ==
  /\ Len(fired) <= 1
  /\ fired = Handled(<<outcome>>)
  /\ (/\ req.op \in {"readDir", "readDirWithConfig"}
      /\ phase = "settled"
      /\ \E c \in CallsOf(runs) : c.state = "err")
     => \E c \in CallsOf(runs) : fired = <<Rejected(Err(c.code, Id(c)))>>

\* C12's case: a run of readDirWithConfig whose glob call rejected is over.
C12_Witness ==
  /\ req.op = "readDirWithConfig"
  /\ phase = "settled"
  /\ \E c \in CallsOf(runs) : c.rq.fn = "glob" /\ c.state = "err"
  /\ Len(fired) = 1
  /\ fired[1].kind = "rejected"

\* The parent directory of p: p up to, not including, its last "/"; a bare
\* file name has none (it lies in the current directory).
HasSeparator(p) == \E i \in 1..Len(p) : p[i] = "/"
ParentDirectory(p) ==
  IF ~HasSeparator(p) THEN <<>>
  ELSE SubSeq(p, 1, (CHOOSE i \in 1..Len(p) :
                       /\ p[i] = "/"
                       /\ \A j \in (i + 1)..Len(p) : p[j] # "/") - 1)
\* The directories that lie on the way to p's parent directory
ParentChain(p) == {q \in Prefixes(Loc(ParentDirectory(p))) : ~IsBase(q)}

\* C13: for every path p, a bare file name included, the existence check and
\* the directory creation of writeFileWithAutoPath(p, c) name the parent
\* directory of p, and no directory is created that is not an ancestor of p.
C13_OnlyParentDirectoryTouched ==
  req.op = "writeFileWithAutoPath"
  => /\ \A c \in calls :
          c.rq.fn \in {"access", "mkdir"} => c.rq.path = ParentDirectory(req.path)
     /\ (fs.dirs \ fs0.dirs) \subseteq ParentChain(req.path)

====
